---- MODULE Spec2Model ----
(***************************************************************************)
(* Cart and checkout engine of the skincare e-commerce backend             *)
(* (src/main.py, src/schemas.py).                                          *)
(*                                                                         *)
(* The handlers are plain `def` endpoints, which FastAPI runs on a thread  *)
(* pool: two requests interleave between their store operations.  Every    *)
(* action below is one store operation of a handler together with the      *)
(* local computation that follows it up to the next store operation.       *)
(* Under SerialSpec one request runs at a time, so a handler's steps form  *)
(* one uninterrupted run.                                                  *)
(*                                                                         *)
(* Collections are sequences in insertion order; the position of a cart    *)
(* or order document is its _id.  Prices are whole numbers (IDR): float    *)
(* rounding is outside the model.  The store is taken to be configured     *)
(* (db is not None).                                                       *)
(***************************************************************************)
EXTENDS Integers, Sequences, FiniteSets, TLC

VARIABLES
    product,    \* collection "product": sequence of [_id, price]
    nextId,     \* how many product ids the store has handed out
    cart,       \* collection "cart": sequence of [user_id, items, rev]
    order,      \* collection "order": sequence of [user_id, items, total, status, src]
    pc,         \* per worker: the store operation it is about to perform
    req,        \* per worker: the request payload
    cartRead,   \* per worker: the local `cart` read by find_one
    it,         \* per worker: position of the for loop over cart items
    acc,        \* per worker: the local `items` / `order_items`
    tot,        \* per worker: the local `total`
    oid,        \* per worker: the local `order_id`
    last,       \* the request that finished most recently, with its response
    nreq,       \* number of requests accepted so far
    user,       \* collection "user": sequence of [email]
    rpc,        \* per worker: the store operation of register it is about to perform
    remail,     \* per worker: the email of its register request
    rlast,      \* the register request that finished most recently, with its status
    nreg,       \* number of register requests accepted so far
    question,   \* the question of the chat request being answered
    answer      \* the answer returned for it ("" before the handler has run)

\* State of the cart and checkout engine.
cartVars == <<product, nextId, cart, order, pc, req, cartRead, it, acc, tot, oid, last, nreq>>

\* State of the account service.
acctVars == <<user, rpc, remail, rlast, nreg>>

\* State of the static responder.
chatVars == <<question, answer>>

vars == <<cartVars, acctVars, chatVars>>

store == <<product, nextId, cart, order>>

(* ------------------------------ bounds -------------------------------- *)

MaxRequests == 3

Procs == {1, 2}

Users == {"u1", "u2"}

\* Product ids in the order the store hands them out (well-formed ObjectIds).
IdOrder == <<"p1", "p2">>

ProductIds == {IdOrder[i] : i \in DOMAIN IdOrder}

\* A product_id string that is not a 24-hex-digit ObjectId.
MalformedIds == {"zz"}

Prices == {1, 2}

\* payload.quantity values: 0 is coerced to 1.
QtyInputs == {0, 2}

\* The add requests drawn, <<user_id, product_id, quantity>>: the first user adds either
\* product in either quantity or asks for a malformed id; the second adds one product.
AddInputs ==
    (({"u1"} \X ProductIds) \X QtyInputs)
       \cup (({"u1"} \X MalformedIds) \X {0})
       \cup {<<<<"u2", "p1">>, 2>>}

\* Bound on the register requests of one run.
MaxRegisters == 3

\* Bound on the pieces a chat question is built from.
MaxFragments == 2

\* Emails are matched exactly: these two differ in case only.
Emails == {"a@x.io", "A@x.io"}

(* ------------------------------ helpers ------------------------------- *)

Min(S) == CHOOSE x \in S : \A y \in S : x <= y

KeepQty(q) == q

\* qty = max(1, payload.quantity)
CoerceQty(q) == IF q >= 1 THEN q ELSE 1

\* ObjectId(pid) raises InvalidId unless pid is a well-formed id.
IsObjectId(pid) == pid \in ProductIds

\* db["product"].find_one({"_id": ObjectId(pid)}): position of the document, 0 for None.
FindProductIdx(pid) ==
    LET m == {i \in DOMAIN product : product[i]._id = pid}
    IN  IF m = {} THEN 0 ELSE Min(m)

\* db["cart"].find_one({"user_id": uid}): the first matching document, 0 for None.
FindAnyCart(uid) ==
    IF cart = <<>> THEN 0 ELSE 1

FindCartIdx(uid) ==
    LET m == {i \in DOMAIN cart : cart[i].user_id = uid}
    IN  IF m = {} THEN 0 ELSE Min(m)

NoCart == [id |-> 0, items |-> <<>>, rev |-> 0]

NoReq == [op |-> "none", user_id |-> "", product_id |-> "", quantity |-> 0]

NoResp == [status |-> 0, items |-> <<>>, total |-> 0, order_id |-> 0]

\* pre: the quantity the user's cart held for the product when an add finished its
\* last store operation (the write), i.e. before that write.
NoLast == [op |-> "none", user_id |-> "", product_id |-> "", quantity |-> 0,
           pre |-> 0, resp |-> NoResp]

\* Quantity stored for product pid in the cart find_one returns for uid (0 if none).
LineQty(uid, pid) ==
    LET c == FindCartIdx(uid)
    IN  IF c = 0 THEN 0
        ELSE LET m == {i \in DOMAIN cart[c].items : cart[c].items[i].product_id = pid}
             IN  IF m = {} THEN 0 ELSE cart[c].items[Min(m)].quantity

AlwaysAppend(items, pid, qty) ==
    Append(items, [product_id |-> pid, quantity |-> qty])

\* The "update or push" loop: the first line for pid gets qty more, else a new line.
AddOrIncrement(items, pid, qty) ==
    LET m == {i \in DOMAIN items : items[i].product_id = pid}
    IN  IF m = {}
        THEN Append(items, [product_id |-> pid, quantity |-> qty])
        ELSE [items EXCEPT ![Min(m)].quantity = @ + qty]

CartMissingOnly(c) == c.id = 0

\* not cart or not cart.get("items")
CartIsEmpty(c) == c.id = 0 \/ c.items = <<>>

\* The cart document at position c as the handler's local dict.
ReadCart(c) ==
    IF c = 0 THEN NoCart ELSE [id |-> c, items |-> cart[c].items, rev |-> cart[c].rev]

\* No register request has finished yet.
NoRegister == [email |-> "", status |-> 0]

(* ------------------------------ initial state ------------------------- *)

Init ==
    /\ product = <<>>
    /\ nextId = 0
    /\ cart = <<>>
    /\ order = <<>>
    /\ pc = [p \in Procs |-> "idle"]
    /\ req = [p \in Procs |-> NoReq]
    /\ cartRead = [p \in Procs |-> NoCart]
    /\ it = [p \in Procs |-> 0]
    /\ acc = [p \in Procs |-> <<>>]
    /\ tot = [p \in Procs |-> 0]
    /\ oid = [p \in Procs |-> 0]
    /\ last = NoLast
    /\ nreq = 0
    /\ user = <<>>
    /\ rpc = [p \in Procs |-> "idle"]
    /\ remail = [p \in Procs |-> ""]
    /\ rlast = NoRegister
    /\ nreg = 0
    /\ question = <<>>
    /\ answer = ""

\* The handler of worker p returns (or raises) r: its locals are gone.
Return(p, r) ==
    /\ pc' = [pc EXCEPT ![p] = "idle"]
    /\ last' = [op |-> req[p].op, user_id |-> req[p].user_id,
                product_id |-> req[p].product_id, quantity |-> req[p].quantity,
                pre |-> IF req[p].op = "add"
                        THEN LineQty(req[p].user_id, req[p].product_id) ELSE 0,
                resp |-> r]
    /\ req' = [req EXCEPT ![p] = NoReq]
    /\ cartRead' = [cartRead EXCEPT ![p] = NoCart]
    /\ it' = [it EXCEPT ![p] = 0]
    /\ acc' = [acc EXCEPT ![p] = <<>>]
    /\ tot' = [tot EXCEPT ![p] = 0]
    /\ oid' = [oid EXCEPT ![p] = 0]

Status(s) == [NoResp EXCEPT !.status = s]

(* ------------------------------ catalog ------------------------------- *)

\* POST /api/products: one insert; the store assigns the id.
create_product(price) ==
    /\ nextId < Len(IdOrder)
    /\ product' = Append(product, [_id |-> IdOrder[nextId + 1], price |-> price])
    /\ nextId' = nextId + 1
    /\ UNCHANGED <<cart, order, pc, req, cartRead, it, acc, tot, oid, last, nreq,
                   acctVars, chatVars>>

\* Another client of the store changes a product's price.
CatalogSetPrice(i, price) ==
    /\ i \in DOMAIN product
    /\ product[i].price # price
    /\ product' = [product EXCEPT ![i].price = price]
    /\ UNCHANGED <<nextId, cart, order, pc, req, cartRead, it, acc, tot, oid, last, nreq,
                   acctVars, chatVars>>

\* Another client of the store removes a product.
CatalogRemove(i) ==
    /\ i \in DOMAIN product
    /\ product' = [j \in 1..(Len(product) - 1) |->
                      IF j < i THEN product[j] ELSE product[j + 1]]
    /\ UNCHANGED <<nextId, cart, order, pc, req, cartRead, it, acc, tot, oid, last, nreq,
                   acctVars, chatVars>>

(* ------------------------------ requests ------------------------------ *)

Accept(p, r, start) ==
    /\ pc[p] = "idle"
    /\ nreq < MaxRequests
    /\ nreq' = nreq + 1
    /\ pc' = [pc EXCEPT ![p] = start]
    /\ req' = [req EXCEPT ![p] = r]
    /\ UNCHANGED <<store, cartRead, it, acc, tot, oid, last, acctVars, chatVars>>

\* POST /api/cart/add {user_id, product_id, quantity}
BeginAdd(p, uid, pid, q) ==
    Accept(p, [op |-> "add", user_id |-> uid, product_id |-> pid, quantity |-> q],
           "add_find_product")

\* GET /api/cart/{user_id}
BeginGet(p, uid) ==
    Accept(p, [op |-> "get", user_id |-> uid, product_id |-> "", quantity |-> 0],
           "get_find_cart")

\* POST /api/checkout {user_id}
BeginCheckout(p, uid) ==
    Accept(p, [op |-> "checkout", user_id |-> uid, product_id |-> "", quantity |-> 0],
           "co_find_cart")

(* ------------------------------ add_to_cart --------------------------- *)

AddFindProduct(p) ==
    /\ pc[p] = "add_find_product"
    /\ IF ~IsObjectId(req[p].product_id)
       THEN Return(p, Status(500))      \* InvalidId is not caught
       ELSE IF FindProductIdx(req[p].product_id) = 0
       THEN Return(p, Status(404))
       ELSE /\ pc' = [pc EXCEPT ![p] = "add_find_cart"]
            /\ UNCHANGED <<req, cartRead, it, acc, tot, oid, last>>
    /\ UNCHANGED <<store, nreq, acctVars, chatVars>>

AddFindCart(p) ==
    /\ pc[p] = "add_find_cart"
    /\ LET c == FindCartIdx(req[p].user_id)
       IN  /\ cartRead' = [cartRead EXCEPT ![p] = ReadCart(c)]
           /\ pc' = [pc EXCEPT ![p] = IF c = 0 THEN "add_insert" ELSE "add_update"]
    /\ UNCHANGED <<store, req, it, acc, tot, oid, last, nreq, acctVars, chatVars>>

AddInsert(p) ==
    /\ pc[p] = "add_insert"
    /\ cart' = Append(cart,
                 [user_id |-> req[p].user_id,
                  items |-> <<[product_id |-> req[p].product_id,
                               quantity |-> CoerceQty(req[p].quantity)]>>,
                  rev |-> 1])
    /\ Return(p, Status(200))
    /\ UNCHANGED <<product, nextId, order, nreq, acctVars, chatVars>>

AddUpdateStored(p) ==
    /\ pc[p] = "add_update"
    /\ cart' = [cart EXCEPT
                 ![cartRead[p].id].items =
                     AddOrIncrement(@, req[p].product_id, CoerceQty(req[p].quantity)),
                 ![cartRead[p].id].rev = @ + 1]
    /\ Return(p, Status(200))
    /\ UNCHANGED <<product, nextId, order, nreq, acctVars, chatVars>>

\* The loop over the list read, then update_one with $set of the whole list.
AddUpdate(p) ==
    /\ pc[p] = "add_update"
    /\ cart' = [cart EXCEPT
                 ![cartRead[p].id].items =
                     AddOrIncrement(cartRead[p].items, req[p].product_id,
                                    CoerceQty(req[p].quantity)),
                 ![cartRead[p].id].rev = @ + 1]
    /\ Return(p, Status(200))
    /\ UNCHANGED <<product, nextId, order, nreq, acctVars, chatVars>>

(* ------------------------------ get_cart ------------------------------ *)

\* One enriched line of the cart view (title and image_url are not modelled).
ViewLine(prod, line) ==
    [product_id |-> prod._id, price |-> prod.price, quantity |-> line.quantity,
     subtotal |-> prod.price * line.quantity]

NotFoundView == Status(404)

\* {"items": [], "total": 0}
EmptyCartView == Status(200)

ViewAppendKeepsMissing(items, line) ==
    LET k == FindProductIdx(line.product_id)
    IN  IF k = 0
        THEN Append(items, [product_id |-> line.product_id, price |-> 0,
                            quantity |-> line.quantity, subtotal |-> 0])
        ELSE Append(items, ViewLine(product[k], line))

\* Loop body, the local `items`: a line whose product is gone is skipped.
ViewAppend(items, line) ==
    LET k == FindProductIdx(line.product_id)
    IN  IF k = 0 THEN items ELSE Append(items, ViewLine(product[k], line))

\* Loop body, the local `total`.
ViewTotal(total, line) ==
    LET k == FindProductIdx(line.product_id)
    IN  IF k = 0 THEN total ELSE total + product[k].price * line.quantity

\* find_one on the cart; with no cart, or no line to loop over, the view is empty.
GetFindCart(p) ==
    /\ pc[p] = "get_find_cart"
    /\ LET c == FindCartIdx(req[p].user_id)
       IN  IF c = 0 \/ cart[c].items = <<>>
           THEN Return(p, EmptyCartView)
           ELSE /\ cartRead' = [cartRead EXCEPT ![p] = ReadCart(c)]
                /\ it' = [it EXCEPT ![p] = 1]
                /\ pc' = [pc EXCEPT ![p] = "get_loop"]
                /\ UNCHANGED <<req, acc, tot, oid, last>>
    /\ UNCHANGED <<store, nreq, acctVars, chatVars>>

\* One iteration of the for loop: find_one on the line's product.
GetLoop(p) ==
    /\ pc[p] = "get_loop"
    /\ LET line == cartRead[p].items[it[p]]
           items == ViewAppend(acc[p], line)
           total == ViewTotal(tot[p], line)
       IN  IF it[p] = Len(cartRead[p].items)
           THEN Return(p, [status |-> 200, items |-> items, total |-> total,
                           order_id |-> 0])
           ELSE /\ acc' = [acc EXCEPT ![p] = items]
                /\ tot' = [tot EXCEPT ![p] = total]
                /\ it' = [it EXCEPT ![p] = it[p] + 1]
                /\ UNCHANGED <<pc, req, cartRead, oid, last>>
    /\ UNCHANGED <<store, nreq, acctVars, chatVars>>

(* ------------------------------ checkout ------------------------------ *)

OrderLineSubtotal(prod, line) ==
    [product_id |-> prod._id, quantity |-> line.quantity,
     price |-> prod.price * line.quantity]

\* OrderItem(product_id, quantity, price): the price is copied.
OrderLine(prod, line) ==
    [product_id |-> prod._id, quantity |-> line.quantity, price |-> prod.price]

CoFindCart(p) ==
    /\ pc[p] = "co_find_cart"
    /\ LET c == ReadCart(FindCartIdx(req[p].user_id))
       IN  IF CartIsEmpty(c)
           THEN Return(p, Status(400))
           ELSE /\ cartRead' = [cartRead EXCEPT ![p] = c]
                /\ it' = [it EXCEPT ![p] = 1]
                /\ pc' = [pc EXCEPT ![p] = IF c.items = <<>> THEN "co_insert"
                                           ELSE "co_loop"]
                /\ UNCHANGED <<req, acc, tot, oid, last>>
    /\ UNCHANGED <<store, nreq, acctVars, chatVars>>

CoLoop(p) ==
    /\ pc[p] = "co_loop"
    /\ LET line == cartRead[p].items[it[p]]
           k == FindProductIdx(line.product_id)
       IN  /\ acc' = [acc EXCEPT ![p] =
                        IF k = 0 THEN @ ELSE Append(@, OrderLine(product[k], line))]
           /\ tot' = [tot EXCEPT ![p] =
                        IF k = 0 THEN @ ELSE @ + product[k].price * line.quantity]
    /\ it' = [it EXCEPT ![p] = it[p] + 1]
    /\ pc' = [pc EXCEPT ![p] = IF it[p] = Len(cartRead[p].items) THEN "co_insert"
                               ELSE "co_loop"]
    /\ UNCHANGED <<store, req, cartRead, oid, last, nreq, acctVars, chatVars>>

CoInsertAndClear(p) ==
    /\ pc[p] = "co_insert"
    /\ order' = Append(order,
                  [user_id |-> req[p].user_id, items |-> acc[p], total |-> tot[p],
                   status |-> "pending",
                   src |-> [cart |-> cartRead[p].id, rev |-> cartRead[p].rev]])
    /\ cart' = [cart EXCEPT ![cartRead[p].id].items = <<>>,
                            ![cartRead[p].id].rev = @ + 1]
    /\ oid' = [oid EXCEPT ![p] = Len(order) + 1]
    /\ pc' = [pc EXCEPT ![p] = "co_clear"]
    /\ UNCHANGED <<product, nextId, req, cartRead, it, acc, tot, last, nreq,
                   acctVars, chatVars>>

CoInsertUpsert(p) ==
    /\ pc[p] = "co_insert"
    /\ LET m == {i \in DOMAIN order : order[i].user_id = req[p].user_id}
           doc == [user_id |-> req[p].user_id, items |-> acc[p], total |-> tot[p],
                   status |-> "pending",
                   src |-> [cart |-> cartRead[p].id, rev |-> cartRead[p].rev]]
       IN  /\ order' = IF m = {} THEN Append(order, doc)
                       ELSE [order EXCEPT ![Min(m)] = doc]
           /\ oid' = [oid EXCEPT ![p] = IF m = {} THEN Len(order) + 1 ELSE Min(m)]
    /\ pc' = [pc EXCEPT ![p] = "co_clear"]
    /\ UNCHANGED <<product, nextId, cart, req, cartRead, it, acc, tot, last, nreq,
                   acctVars, chatVars>>

\* create_document("order", Order(...)); src records which cart contents it was built from.
CoInsert(p) ==
    /\ pc[p] = "co_insert"
    /\ order' = Append(order,
                  [user_id |-> req[p].user_id, items |-> acc[p], total |-> tot[p],
                   status |-> "pending",
                   src |-> [cart |-> cartRead[p].id, rev |-> cartRead[p].rev]])
    /\ oid' = [oid EXCEPT ![p] = Len(order) + 1]
    /\ pc' = [pc EXCEPT ![p] = "co_clear"]
    /\ UNCHANGED <<product, nextId, cart, req, cartRead, it, acc, tot, last, nreq,
                   acctVars, chatVars>>

CoClearWrongCollection(p) ==
    /\ pc[p] = "co_clear"
    /\ order' = [order EXCEPT ![oid[p]].items = <<>>]
    /\ Return(p, [status |-> 200, items |-> <<>>, total |-> tot[p], order_id |-> oid[p]])
    /\ UNCHANGED <<product, nextId, cart, nreq, acctVars, chatVars>>

\* db["cart"].update_one({"_id": cart["_id"]}, {"$set": {"items": []}}), then return.
CoClear(p) ==
    /\ pc[p] = "co_clear"
    /\ cart' = [cart EXCEPT ![cartRead[p].id].items = <<>>,
                            ![cartRead[p].id].rev = @ + 1]
    /\ Return(p, [status |-> 200, items |-> <<>>, total |-> tot[p], order_id |-> oid[p]])
    /\ UNCHANGED <<product, nextId, order, nreq, acctVars, chatVars>>

(* ------------------------------ specifications ------------------------ *)

Quiescent == \A p \in Procs : pc[p] = "idle"

Next ==
    \/ \E price \in Prices : create_product(price)
    \/ \E i \in 1..Len(IdOrder), price \in Prices : CatalogSetPrice(i, price)
    \/ \E i \in 1..Len(IdOrder) : CatalogRemove(i)
    \/ \E p \in Procs, a \in AddInputs : BeginAdd(p, a[1][1], a[1][2], a[2])
    \/ \E p \in Procs, uid \in Users : BeginGet(p, uid)
    \/ \E p \in Procs, uid \in Users : BeginCheckout(p, uid)
    \/ \E p \in Procs : AddFindProduct(p)
    \/ \E p \in Procs : AddFindCart(p)
    \/ \E p \in Procs : AddInsert(p)
    \/ \E p \in Procs : AddUpdate(p)
    \/ \E p \in Procs : GetFindCart(p)
    \/ \E p \in Procs : GetLoop(p)
    \/ \E p \in Procs : CoFindCart(p)
    \/ \E p \in Procs : CoLoop(p)
    \/ \E p \in Procs : CoInsert(p)
    \/ \E p \in Procs : CoClear(p)

\* Requests may overlap.
Spec == Init /\ [][Next]_vars

\* One request at a time, and the catalog changes only between requests.
SerialNext ==
    \/ Quiescent /\ \E price \in Prices : create_product(price)
    \/ Quiescent /\ \E i \in 1..Len(IdOrder), price \in Prices : CatalogSetPrice(i, price)
    \/ Quiescent /\ \E i \in 1..Len(IdOrder) : CatalogRemove(i)
    \/ Quiescent /\ \E p \in Procs, a \in AddInputs : BeginAdd(p, a[1][1], a[1][2], a[2])
    \/ Quiescent /\ \E p \in Procs, uid \in Users : BeginGet(p, uid)
    \/ Quiescent /\ \E p \in Procs, uid \in Users : BeginCheckout(p, uid)
    \/ \E p \in Procs : AddFindProduct(p)
    \/ \E p \in Procs : AddFindCart(p)
    \/ \E p \in Procs : AddInsert(p)
    \/ \E p \in Procs : AddUpdate(p)
    \/ \E p \in Procs : GetFindCart(p)
    \/ \E p \in Procs : GetLoop(p)
    \/ \E p \in Procs : CoFindCart(p)
    \/ \E p \in Procs : CoLoop(p)
    \/ \E p \in Procs : CoInsert(p)
    \/ \E p \in Procs : CoClear(p)

SerialSpec == Init /\ [][SerialNext]_vars

(* ------------------------------ crash --------------------------------- *)

\* The process serving worker p's checkout dies after create_document has returned and
\* before update_one runs: no response is sent (status 0) and nothing more is written.
CheckoutCrash(p) ==
    /\ pc[p] = "co_clear"
    /\ Return(p, NoResp)
    /\ UNCHANGED <<store, nreq, acctVars, chatVars>>

CrashNext ==
    \/ SerialNext
    \/ \E p \in Procs : CheckoutCrash(p)

\* One request at a time, and a checkout may die between its two writes.
CrashSpec == Init /\ [][CrashNext]_vars

(* ------------------------------ register ------------------------------ *)

\* POST /api/auth/register {name, email, password}
BeginRegister(p, e) ==
    /\ rpc[p] = "idle"
    /\ nreg < MaxRegisters
    /\ nreg' = nreg + 1
    /\ rpc' = [rpc EXCEPT ![p] = "reg_find"]
    /\ remail' = [remail EXCEPT ![p] = e]
    /\ UNCHANGED <<user, rlast, cartVars, chatVars>>

\* The handler of worker p returns (or raises) with the given status.
RegisterReturn(p, status) ==
    /\ rpc' = [rpc EXCEPT ![p] = "idle"]
    /\ remail' = [remail EXCEPT ![p] = ""]
    /\ rlast' = [email |-> remail[p], status |-> status]

\* db["user"].find_one({"email": user.email}) is not None
EmailTaken(e) == \E i \in DOMAIN user : user[i].email = e

\* The "check existing" step: 400 when the email is found.
RegFind(p) ==
    /\ rpc[p] = "reg_find"
    /\ IF EmailTaken(remail[p])
       THEN RegisterReturn(p, 400)
       ELSE /\ rpc' = [rpc EXCEPT ![p] = "reg_insert"]
            /\ UNCHANGED <<remail, rlast>>
    /\ UNCHANGED <<user, nreg, cartVars, chatVars>>

\* create_document("user", user_doc), then return the new id.
RegInsert(p) ==
    /\ rpc[p] = "reg_insert"
    /\ user' = Append(user, [email |-> remail[p]])
    /\ RegisterReturn(p, 200)
    /\ UNCHANGED <<nreg, cartVars, chatVars>>

RegisterNext ==
    \/ \E p \in Procs, e \in Emails : BeginRegister(p, e)
    \/ \E p \in Procs : RegFind(p)
    \/ \E p \in Procs : RegInsert(p)

\* Register requests only; they may overlap.
RegisterSpec == Init /\ [][RegisterNext]_vars

(* ------------------------------ chat ---------------------------------- *)

\* A string is the sequence of its characters.  Questions are built from at most
\* MaxFragments of these pieces: keywords in mixed case, two halves of "acne", a word
\* that is no keyword, and a blank.
Fragments ==
    {<<"j", "e", "r", "a", "w", "a", "t">>,
     <<"K", "u", "s", "a", "m">>,
     <<"D", "R", "Y">>,
     <<"o", "i", "l", "y">>,
     <<"A", "c">>,
     <<"n", "E">>,
     <<"h", "a", "l", "o">>,
     <<" ">>}

RECURSIVE Flatten(_)
\* The pieces written one after the other.
Flatten(pieces) ==
    IF pieces = <<>> THEN <<>> ELSE Head(pieces) \o Flatten(Tail(pieces))

Questions ==
    {Flatten(ps) : ps \in UNION {[1..n -> Fragments] : n \in 0..MaxFragments}}

UpperCase ==
    [A |-> "a", B |-> "b", C |-> "c", D |-> "d", E |-> "e", F |-> "f", G |-> "g", H
     |-> "h", I |-> "i", J |-> "j", K |-> "k", L |-> "l", M |-> "m", N |-> "n", O |->
     "o", P |-> "p", Q |-> "q", R |-> "r", S |-> "s", T |-> "t", U |-> "u", V |->
     "v", W |-> "w", X |-> "x", Y |-> "y", Z |-> "z"]

\* req.question.lower()
Lower(q) ==
    [i \in DOMAIN q |-> IF q[i] \in DOMAIN UpperCase THEN UpperCase[q[i]] ELSE q[i]]

\* k in q
Contains(k, q) ==
    \E i \in 1..(Len(q) - Len(k) + 1) : SubSeq(q, i, i + Len(k) - 1) = k

\* any(k in q for k in [...])
AnyIn(keywords, q) == \E k \in keywords : Contains(k, q)

KwAcne ==
    {<<"j", "e", "r", "a", "w", "a", "t">>,
     <<"a", "c", "n", "e">>,
     <<"b", "e", "r", "u", "n", "t", "u", "s", "a", "n">>}

KwDull ==
    {<<"k", "u", "s", "a", "m">>,
     <<"d", "u", "l", "l">>,
     <<"p", "e", "n", "c", "e", "r", "a", "h">>}

KwDry ==
    {<<"k", "e", "r", "i", "n", "g">>,
     <<"d", "r", "y">>,
     <<"d", "e", "h", "i", "d", "r", "a", "s", "i">>}

KwOily ==
    {<<"b", "e", "r", "m", "i", "n", "y", "a", "k">>,
     <<"o", "i", "l", "y">>,
     <<"m", "i", "n", "y", "a", "k">>}

AnswerAcne ==
    "Untuk masalah jerawat, gunakan pembersih lembut, toner BHA, dan pelembap non-comedogenic. Tambahkan serum dengan niacinamide."

AnswerDull ==
    "Kulit kusam? Coba exfoliasi AHA 2-3x/minggu dan serum vitamin C pagi hari, selalu gunakan sunscreen."

AnswerDry ==
    "Kulit kering? Gunakan cleanser lembut, hydrating toner, serum hyaluronic acid, dan pelembap occlusive."

AnswerOily ==
    "Kulit berminyak? Pilih gel moisturizer, hindari cleanser terlalu keras, dan gunakan niacinamide + zinc."

AnswerDefault ==
    "Ceritakan masalah kulit Anda (jerawat, kusam, kering, berminyak) dan saya akan bantu rekomendasi rutinitas."

chatDullFirst(question0) ==
    LET q == Lower(question0)
    IN  IF AnyIn(KwDull, q) THEN AnswerDull
        ELSE IF AnyIn(KwAcne, q) THEN AnswerAcne
        ELSE IF AnyIn(KwDry, q) THEN AnswerDry
        ELSE IF AnyIn(KwOily, q) THEN AnswerOily
        ELSE AnswerDefault

\* The if / elif chain of the handler.
chat(question0) ==
    LET q == Lower(question0)
    IN  IF AnyIn(KwAcne, q) THEN AnswerAcne
        ELSE IF AnyIn(KwDull, q) THEN AnswerDull
        ELSE IF AnyIn(KwDry, q) THEN AnswerDry
        ELSE IF AnyIn(KwOily, q) THEN AnswerOily
        ELSE AnswerDefault

\* POST /api/chat {question}
BeginChat(q) ==
    /\ question' = q
    /\ answer' = ""
    /\ UNCHANGED <<cartVars, acctVars>>

\* The handler runs and returns {"answer": answer}.
ChatAnswer ==
    /\ answer = ""
    /\ answer' = chat(question)
    /\ UNCHANGED <<question, cartVars, acctVars>>

ChatNext ==
    \/ \E q \in Questions : BeginChat(q)
    \/ ChatAnswer

\* Chat requests only, one after the other (the handler touches no shared state).
ChatSpec == Init /\ [][ChatNext]_vars

(* ------------------------------ properties ---------------------------- *)

\* Worker p performs its store operation in this step.
Steps(p) == pc'[p] # pc[p] \/ it'[p] # it[p]

\* Worker p's request finishes in this step.
Finishes(p) == pc[p] # "idle" /\ pc'[p] = "idle"

Resolves(pid) == \E i \in DOMAIN product : product[i]._id = pid

CatalogPrice(pid) == product[CHOOSE i \in DOMAIN product : product[i]._id = pid].price

\* Every line for product pid in any cart document of user uid.
UserLines(uid, pid) ==
    {<<c, i>> \in (DOMAIN cart) \X (1..MaxRequests) :
        /\ cart[c].user_id = uid
        /\ i \in DOMAIN cart[c].items
        /\ cart[c].items[i].product_id = pid}

Max1(q) == IF q > 1 THEN q ELSE 1

\* Worker p finishes a successful add of the product and user of the add that
\* finished just before it.
SecondAddFinishes(p) ==
    /\ pc[p] \in {"add_insert", "add_update"}
    /\ Finishes(p)
    /\ last.op = "add"
    /\ last.resp.status = 200
    /\ last.user_id = req[p].user_id
    /\ last.product_id = req[p].product_id

\* C1 as stated: after add_item(U, P, q1) and then add_item(U, P, q2), with no request
\* in between, U's cart holds exactly one line for P, of quantity
\* max(1,q1) + max(1,q2).
C1_TwoAddsSumOnly ==
    [][\A p \in Procs, u \in Users, pid \in ProductIds :
          (SecondAddFinishes(p) /\ req[p].user_id = u /\ req[p].product_id = pid) =>
             /\ Cardinality(UserLines(u, pid))' = 1
             /\ LineQty(u, pid)' = Max1(last.quantity) + Max1(req[p].quantity)]_vars

\* C1 amended: after the two adds U's cart holds exactly one line for P, of quantity
\* max(1,q1) + max(1,q2) more than the cart held for P before the first add
\* (0 when U had no cart or the cart no line for P).
C1_TwoAddsAccumulate ==
    [][\A p \in Procs, u \in Users, pid \in ProductIds :
          (SecondAddFinishes(p) /\ req[p].user_id = u /\ req[p].product_id = pid) =>
             /\ Cardinality(UserLines(u, pid))' = 1
             /\ LineQty(u, pid)' = last.pre + Max1(last.quantity) + Max1(req[p].quantity)]_vars

\* Exactly two requests ran, add(U, P, 2) then add(U, P, 0): one line of quantity 3.
C1_Witness ==
    /\ nreq = 2
    /\ Quiescent
    /\ last.op = "add" /\ last.resp.status = 200
    /\ last.quantity = 0 /\ last.pre = 2
    /\ Cardinality(UserLines(last.user_id, last.product_id)) = 1
    /\ LineQty(last.user_id, last.product_id) = 3

\* C2: in every reachable state, under any interleaving of requests, every stored
\* cart's item list has at most one entry per product id.
C2_OneLinePerProduct ==
    \A c \in DOMAIN cart : \A i, j \in DOMAIN cart[c].items :
        cart[c].items[i].product_id = cart[c].items[j].product_id => i = j

\* A cart of two lines, one of which has accumulated more than a single add can give.
C2_Witness ==
    \E c \in DOMAIN cart :
        /\ Len(cart[c].items) = 2
        /\ \E i \in DOMAIN cart[c].items : cart[c].items[i].quantity > 2

\* C3 as stated: add_item with a product id that resolves to no stored product fails
\* with 404 and leaves the cart collection unchanged.
C3_UnknownProduct404 ==
    [][\A p \in Procs :
          (pc[p] = "add_find_product" /\ Steps(p) /\ ~Resolves(req[p].product_id)) =>
             /\ Finishes(p)
             /\ last'.resp.status = 404
             /\ cart' = cart]_vars

\* The user of worker p's request has no cart, or a cart without lines.
NothingToCheckOut(p) ==
    \/ \A c \in DOMAIN cart : cart[c].user_id # req[p].user_id
    \/ \E c \in DOMAIN cart :
          /\ cart[c].user_id = req[p].user_id
          /\ \A d \in DOMAIN cart : cart[d].user_id = req[p].user_id => c <= d
          /\ cart[c].items = <<>>

\* C4: checkout for a user with no cart record, or with a cart whose item list is
\* empty, fails with 400 and leaves the store unchanged: no order, cart untouched.
C4_EmptyCheckoutRejected ==
    [][\A p \in Procs :
          (pc[p] = "co_find_cart" /\ Steps(p) /\ NothingToCheckOut(p)) =>
             /\ Finishes(p)
             /\ last'.resp.status = 400
             /\ order' = order
             /\ cart' = cart
             /\ product' = product]_vars

\* A checkout was rejected for a user whose cart exists and is empty (an earlier
\* checkout emptied it).
C4_Witness ==
    /\ last.op = "checkout" /\ last.resp.status = 400
    /\ \E c \in DOMAIN cart : cart[c].user_id = last.user_id /\ cart[c].items = <<>>
    /\ \E o \in DOMAIN order : order[o].user_id = last.user_id

\* The cart document find_one returns for user u (when u has one).
FirstCartOf(u) ==
    CHOOSE c \in DOMAIN cart :
        /\ cart[c].user_id = u
        /\ \A d \in DOMAIN cart : cart[d].user_id = u => c <= d

HasCart(u) == \E c \in DOMAIN cart : cart[c].user_id = u

RECURSIVE SumLines(_)
\* Sum of price * quantity over a list of order items.
SumLines(items) ==
    IF items = <<>> THEN 0
    ELSE items[1].price * items[1].quantity + SumLines(Tail(items))

\* C5: every persisted order's total is the sum of price * quantity over its own
\* items; each item carries the catalog price found when the checkout looked the
\* product up and the quantity of the cart line that checkout read; the total
\* returned to the caller is the stored total.
C5_OrderTotals ==
    /\ [](\A o \in DOMAIN order : order[o].total = SumLines(order[o].items))
    /\ [][\A p \in Procs, u \in Users :
            /\ (pc[p] = "co_find_cart" /\ Steps(p) /\ ~Finishes(p) /\ req[p].user_id = u)
                  => cartRead'[p].items = cart[FirstCartOf(u)].items
            /\ (pc[p] = "co_loop" /\ Steps(p)) =>
                  LET line == cartRead[p].items[it[p]]
                  IN  acc'[p] = IF Resolves(line.product_id)
                                THEN Append(acc[p],
                                       [product_id |-> line.product_id,
                                        quantity |-> line.quantity,
                                        price |-> CatalogPrice(line.product_id)])
                                ELSE acc[p]
            /\ (pc[p] = "co_insert" /\ Steps(p) /\ req[p].user_id = u) =>
                  /\ Len(order') = Len(order) + 1
                  /\ order'[Len(order')].items = acc[p]
                  /\ order'[Len(order')].user_id = u
                  /\ oid'[p] = Len(order')
            /\ (pc[p] = "co_clear" /\ Finishes(p)) =>
                  /\ last'.resp.status = 200
                  /\ last'.resp.order_id = oid[p]
                  /\ last'.resp.total = order[oid[p]].total]_vars

\* A checkout has just returned the total of an order of two items with different
\* prices, one of them bought twice or more.
C5_Witness ==
    /\ last.op = "checkout" /\ last.resp.status = 200
    /\ last.resp.order_id \in DOMAIN order
    /\ LET o == order[last.resp.order_id]
       IN  /\ Len(o.items) = 2
           /\ o.items[1].price # o.items[2].price
           /\ \E k \in DOMAIN o.items : o.items[k].quantity > 1
           /\ last.resp.total = o.total

\* C6: when a checkout succeeds the user's cart record still exists with an empty
\* item list right after the checkout returns, and a get_cart that follows it for
\* the same user returns no items and total 0.
C6_CartEmptyAfterCheckout ==
    [][\A p \in Procs, u \in Users :
          /\ (pc[p] = "co_clear" /\ Finishes(p) /\ req[p].user_id = u) =>
                /\ last'.resp.status = 200
                /\ HasCart(u)'
                /\ cart'[FirstCartOf(u)'].items = <<>>
                /\ Len(cart') = Len(cart)
          /\ (pc[p] \in {"get_find_cart", "get_loop"} /\ Finishes(p) /\ req[p].user_id = u
                /\ last.op = "checkout" /\ last.user_id = u /\ last.resp.status = 200) =>
                /\ last'.resp.status = 200
                /\ last'.resp.items = <<>>
                /\ last'.resp.total = 0]_vars

\* Three requests ran, add, checkout and get_cart of one user: the order is stored,
\* the cart record is still there, empty, and the view returned was empty.
C6_Witness ==
    /\ nreq = 3 /\ Quiescent
    /\ last.op = "get" /\ last.resp.status = 200 /\ last.resp.items = <<>>
    /\ Len(order) = 1 /\ order[1].user_id = last.user_id /\ order[1].items # <<>>
    /\ HasCart(last.user_id)
    /\ cart[FirstCartOf(last.user_id)].items = <<>>

\* C7 as stated: a given set of cart contents (one cart document as one write left
\* it) is converted into at most one order, whatever the interleaving.
C7_OneOrderPerCartContents ==
    \A i, j \in DOMAIN order : order[i].src = order[j].src => i = j

\* C8: get_cart for a user with no cart record returns items = [] and total = 0, not
\* an error, and changes nothing in the store (it creates no cart record).
C8_NoCartEmptyView ==
    [][\A p \in Procs, u \in Users :
          (pc[p] = "get_find_cart" /\ Steps(p) /\ req[p].user_id = u /\ ~HasCart(u)) =>
             /\ Finishes(p)
             /\ last'.resp.status = 200
             /\ last'.resp.items = <<>>
             /\ last'.resp.total = 0
             /\ store' = store]_vars

\* get_cart returned the empty view to a user without a cart while another user has one.
C8_Witness ==
    /\ last.op = "get" /\ last.resp.status = 200
    /\ last.resp.items = <<>> /\ last.resp.total = 0
    /\ ~HasCart(last.user_id)
    /\ cart # <<>>

\* The view get_cart is to return for an item list: the lines whose product resolves,
\* in cart order, each with the catalog price and its subtotal.
ExpectedView(items) ==
    LET kept == SelectSeq(items, LAMBDA l : Resolves(l.product_id))
    IN  [i \in 1..Len(kept) |->
            [product_id |-> kept[i].product_id,
             price |-> CatalogPrice(kept[i].product_id),
             quantity |-> kept[i].quantity,
             subtotal |-> CatalogPrice(kept[i].product_id) * kept[i].quantity]]

RECURSIVE SumSubtotals(_)
SumSubtotals(lines) ==
    IF lines = <<>> THEN 0
    ELSE lines[1].price * lines[1].quantity + SumSubtotals(Tail(lines))

\* C9: get_cart returns exactly the cart lines whose product still resolves in the
\* catalog, in cart order, and a total that is the sum of price * quantity over the
\* returned lines only.
C9_ViewOmitsUnresolvable ==
    [][\A p \in Procs, u \in Users :
          (pc[p] \in {"get_find_cart", "get_loop"} /\ Finishes(p) /\ req[p].user_id = u
             /\ HasCart(u)) =>
             /\ last'.resp.status = 200
             /\ last'.resp.items = ExpectedView(cart[FirstCartOf(u)].items)
             /\ last'.resp.total = SumSubtotals(last'.resp.items)]_vars

\* get_cart returned one line, the second of a cart of two lines whose first product
\* has been removed from the catalog.
C9_Witness ==
    /\ last.op = "get" /\ last.resp.status = 200 /\ Quiescent
    /\ HasCart(last.user_id)
    /\ LET items == cart[FirstCartOf(last.user_id)].items
       IN  /\ Len(items) = 2
           /\ ~Resolves(items[1].product_id)
           /\ Len(last.resp.items) = 1
           /\ last.resp.items[1].product_id = items[2].product_id
           /\ last.resp.total = last.resp.items[1].price * items[2].quantity
           /\ last.resp.total > 0

\* C10: a persisted order never changes: no catalog price change and no later
\* add_item, get_cart or checkout alters the items, prices or total of an order.
C10_OrdersImmutable ==
    [][\A i \in DOMAIN order : i \in DOMAIN order' /\ order'[i] = order[i]]_vars

\* Three requests ran, add, checkout and add of one user (three writes to the cart):
\* the order keeps the price it was created with although the catalog price of its
\* product is different now.
C10_Witness ==
    /\ nreq = 3 /\ Quiescent
    /\ last.op = "add" /\ last.resp.status = 200
    /\ HasCart(last.user_id)
    /\ cart[FirstCartOf(last.user_id)].rev = 3
    /\ Len(cart[FirstCartOf(last.user_id)].items) = 1
    /\ Len(order) = 1
    /\ order[1].user_id = last.user_id
    /\ order[1].total = SumLines(order[1].items)
    /\ \E k \in DOMAIN order[1].items :
          /\ Resolves(order[1].items[k].product_id)
          /\ CatalogPrice(order[1].items[k].product_id) # order[1].items[k].price

\* C11: every item stored in any cart has quantity >= 1 in every reachable state:
\* a requested quantity <= 0 counts as 1 when a line is created or incremented,
\* and nothing brings a stored quantity below 1.
C11_QuantityAtLeastOne ==
    \A c \in DOMAIN cart : \A i \in DOMAIN cart[c].items :
        cart[c].items[i].quantity >= 1

\* Two adds with requested quantity 0 have gone through: the first created the line
\* with quantity 1, the second incremented it to 2.
C11_Witness ==
    /\ last.op = "add" /\ last.resp.status = 200
    /\ last.quantity = 0 /\ last.pre = 1
    /\ nreq = 2 /\ Quiescent
    /\ Len(cart) = 1 /\ Len(cart[1].items) = 1
    /\ cart[1].items[1].quantity = 2

\* C12 as stated: a register request for an email that is already stored fails with
\* 400 and stores no user, and in every reachable state, overlapping register
\* requests included, no two user records have the same email.
C12_EmailsUnique ==
    /\ [](\A i, j \in DOMAIN user : user[i].email = user[j].email => i = j)
    /\ [][\A p \in Procs :
            (rpc[p] = "reg_find" /\ rpc'[p] # rpc[p]
               /\ \E i \in DOMAIN user : user[i].email = remail[p]) =>
               /\ rlast'.status = 400
               /\ rpc'[p] = "idle"
               /\ user' = user]_vars

\* The keyword sets with their answers, in the order the claim gives.
Rules ==
    <<[keywords |-> KwAcne, answer |-> AnswerAcne],
      [keywords |-> KwDull, answer |-> AnswerDull],
      [keywords |-> KwDry, answer |-> AnswerDry],
      [keywords |-> KwOily, answer |-> AnswerOily]>>

\* Some keyword of rule r occurs in question q, letter case aside.
RuleMatches(r, q) ==
    \E k \in Rules[r].keywords :
        \E i \in 1..Len(q) :
            /\ i + Len(k) - 1 <= Len(q)
            /\ \A j \in 1..Len(k) : Lower(<<q[i + j - 1]>>) = <<k[j]>>

\* C13: the answer to a question is that of the first keyword set, in the order acne,
\* dullness, dryness, oiliness, with a keyword occurring in it as a substring
\* whatever the letter case, and the generic prompt when no set has one; so a
\* question with "jerawat" gets the acne answer even when it also has "kusam".
C13_FirstMatchingRule ==
    answer # "" =>
       LET hits == {r \in DOMAIN Rules : RuleMatches(r, question)}
       IN  /\ hits # {} => (\E r \in hits : /\ \A h \in hits : r <= h
                                            /\ answer = Rules[r].answer)
           /\ hits = {} => answer = AnswerDefault

\* "Kusamjerawat" was answered with the acne answer.
C13_Witness ==
    /\ question = <<"K", "u", "s", "a", "m", "j", "e", "r", "a", "w", "a", "t">>
    /\ answer = AnswerAcne

\* Quantity an item list holds for product pid (0 when it has no line for it).
QtyIn(items, pid) ==
    IF \E i \in DOMAIN items : items[i].product_id = pid
    THEN items[CHOOSE i \in DOMAIN items : items[i].product_id = pid].quantity
    ELSE 0

\* C14: an add_item against an existing cart stores the whole item list it read with
\* its own increment applied, whatever the cart holds by then, and returns success;
\* so of two overlapping adds of one product the later write keeps only its own
\* increment (C14_Witness is that outcome).
C14_WholeListOverwrite ==
    [][\A p \in Procs, pid \in ProductIds :
          (pc[p] = "add_update" /\ Finishes(p) /\ req[p].product_id = pid) =>
             LET old == cartRead[p].items
                 new == cart'[cartRead[p].id].items
             IN  /\ last'.resp.status = 200
                 /\ QtyIn(new, pid) = QtyIn(old, pid) + Max1(req[p].quantity)
                 /\ Len(new) = IF QtyIn(old, pid) = 0 THEN Len(old) + 1 ELSE Len(old)
                 /\ \A i \in DOMAIN old :
                       old[i].product_id # pid => new[i] = old[i]]_vars

\* Three adds of one product to one cart have all written (rev = 3) and the last one
\* has returned 200, yet its write raised the stored quantity by less than its own
\* increment: the increment written just before it is lost.
C14_Witness ==
    /\ nreq = 3 /\ Quiescent
    /\ last.op = "add" /\ last.resp.status = 200
    /\ Len(cart) = 1 /\ cart[1].rev = 3
    /\ Len(cart[1].items) = 1
    /\ cart[1].items[1].product_id = last.product_id
    /\ cart[1].items[1].quantity < last.pre + Max1(last.quantity)

\* Worker p's checkout for user u is the first request after a checkout for u that
\* died between its two writes.
RetryAfterCrash(p, u) ==
    /\ req[p].op = "checkout" /\ req[p].user_id = u
    /\ last.op = "checkout" /\ last.user_id = u /\ last.resp.status = 0

\* C15: when a checkout dies after the order is persisted and before the cart is
\* cleared, the order is in the store and the cart still holds the items it was built
\* from; a checkout retried for the same user is then not rejected, persists a second
\* order built from the same cart contents, and succeeds.
C15_CrashThenDuplicateOrder ==
    [][\A p \in Procs, u \in Users :
          /\ (pc[p] = "co_clear" /\ Finishes(p) /\ last'.resp.status = 0
                /\ req[p].user_id = u) =>
                /\ order' = order /\ cart' = cart
                /\ oid[p] \in DOMAIN order
                /\ order[oid[p]].user_id = u
                /\ HasCart(u)
                /\ cart[FirstCartOf(u)].items # <<>>
                /\ order[oid[p]].src = [cart |-> FirstCartOf(u),
                                        rev |-> cart[FirstCartOf(u)].rev]
          /\ (RetryAfterCrash(p, u) /\ pc[p] = "co_find_cart" /\ Steps(p)) =>
                ~Finishes(p)
          /\ (RetryAfterCrash(p, u) /\ pc[p] = "co_insert" /\ Steps(p)) =>
                /\ Len(order') = Len(order) + 1
                /\ order # <<>>
                /\ order[Len(order)].user_id = u
                /\ order'[Len(order')].user_id = u
                /\ order'[Len(order')].src = order[Len(order)].src
          /\ (RetryAfterCrash(p, u) /\ pc[p] = "co_clear" /\ Finishes(p)
                /\ last'.resp.status # 0) =>
                /\ last'.resp.status = 200
                /\ last'.resp.order_id = Len(order)]_vars

\* Three requests ran, an add, a checkout that died and its retry, which returned 200:
\* two orders of the same user built from the same cart contents.
C15_Witness ==
    /\ nreq = 3 /\ Quiescent
    /\ last.op = "checkout" /\ last.resp.status = 200 /\ last.resp.order_id = 2
    /\ Len(order) = 2
    /\ order[1].user_id = last.user_id /\ order[2].user_id = last.user_id
    /\ order[1].src = order[2].src
    /\ order[1].items # <<>> /\ order[2].items = order[1].items
    /\ cart[FirstCartOf(last.user_id)].items = <<>>

\* The cart documents of user u.
CartsOf(u) == {c \in DOMAIN cart : cart[c].user_id = u}

\* C16: in every reachable state there is at most one cart record per user id, also
\* when two add_item requests of a user who has no cart yet overlap.
C16_OneCartPerUser ==
    \A u \in Users : Cardinality(CartsOf(u)) <= 1

\* Some order was built from exactly the cart contents worker p read, and it took lines
\* from them.
OrderedFromRead(p) ==
    \E o \in DOMAIN order :
        /\ order[o].src = [cart |-> cartRead[p].id, rev |-> cartRead[p].rev]
        /\ order[o].items # <<>>

\* C17: an add_item that read the cart before a checkout cleared it does not restore
\* the ordered lines when it writes afterwards: the cart then holds only the added line.
C17_OrderedLinesStayOut ==
    [][\A p \in Procs, pid \in ProductIds :
          (/\ pc[p] = "add_update" /\ Finishes(p) /\ req[p].product_id = pid
           /\ OrderedFromRead(p)
           /\ cart[cartRead[p].id].items = <<>>) =>
              cart'[cartRead[p].id].items =
                 <<[product_id |-> pid, quantity |-> Max1(req[p].quantity)]>>]_vars

\* C18: every persisted order contains at least one order item.
C18_OrdersNonEmpty ==
    \A o \in DOMAIN order : order[o].items # <<>>

\* C19: a step of a request issued for user u leaves every cart record of any other
\* user v as it was, creates no cart record for v and creates no order of v.
C19_OtherUsersUntouched ==
    [][\A p \in Procs, u \in Users, v \in Users :
          (u # v /\ req[p].user_id = u /\ Steps(p)) =>
             /\ \A c \in DOMAIN cart :
                   cart[c].user_id = v => (c \in DOMAIN cart' /\ cart'[c] = cart[c])
             /\ \A c \in DOMAIN cart' :
                   cart'[c].user_id = v => c \in DOMAIN cart
             /\ \A o \in DOMAIN order' :
                   order'[o].user_id = v => (o \in DOMAIN order /\ order[o] = order'[o])]_vars

\* u2 added to its cart, then u1 added and checked out: u1's order exists, u2's cart
\* still holds its line and no order names u2.
C19_Witness ==
    /\ nreq = 3 /\ Quiescent
    /\ last.op = "checkout" /\ last.user_id = "u1" /\ last.resp.status = 200
    /\ Cardinality(CartsOf("u2")) = 1
    /\ \A c \in CartsOf("u2") : cart[c].items # <<>> /\ cart[c].rev = 1
    /\ \A c \in CartsOf("u1") : cart[c].items = <<>>
    /\ order # <<>>
    /\ \A o \in DOMAIN order : order[o].user_id = "u1"

====
